---- MODULE Spec2Model ----
(***************************************************************************)
(* Model of src/db.py: the DbAccess data-access layer of the hit counter.  *)
(*                                                                         *)
(* The store is a SQLite file in WAL mode.  Every connection handed out by *)
(* get_connection works in the sqlite3 module's default transaction mode:  *)
(* a SELECT runs on the latest committed snapshot, the first INSERT or     *)
(* UPDATE of a call opens a transaction and takes the single write lock,   *)
(* and connection.commit() publishes the writes and releases the lock.  A  *)
(* writer that finds the lock taken waits for it (the busy handler).       *)
(* Rows carry an AUTOINCREMENT id, modelled as the position in a sequence; *)
(* a SELECT without ORDER BY scans a table in ascending id, so fetchone()  *)
(* yields the matching row of least id.                                    *)
(***************************************************************************)
EXTENDS Integers, Sequences, FiniteSets, TLC

\* ------------------------------------------------------------------ bounds
NumConns == 2
MaxCalls == 3
MaxDay == 2
MaxAmount == 2
MaxHits == 3

Conns == 1..NumConns
Days == 1..MaxDay
Amounts == (0 - 1)..MaxAmount
NoConn == 0

\* ------------------------------------------------------------ input values
\* Python's None, as an argument value
None == "None"
\* config.UNKNOWN_AGENT, the text stored for a missing user agent
UNKNOWN_AGENT == "unknown"
\* the agent arguments a caller passes
Agents == {None, UNKNOWN_AGENT, "ua"}
\* config.TOP_SITES_IGNORE_DOMAIN_RE_MATCH, an ordered list of literal patterns
TOP_SITES_IGNORE_DOMAIN_RE_MATCH == << <<"l">>, <<"i">> >>
\* url strings, as sequences of characters
Urls == { <<>>, <<"a">>, <<"a", "/">>, <<"b">>, <<"i", "b">> }
\* the date argument of getDailyCount: absent, a datetime, or anything else
DateArgs == {[kind |-> "none", day |-> 0], [kind |-> "other", day |-> 0]}
               \cup {[kind |-> "datetime", day |-> d] : d \in Days}

\* ------------------------------------------------------ values of Python
IntVal(n) == [kind |-> "int", val |-> n]
TextVal(s) == [kind |-> "text", val |-> s]
ErrVal(e) == [kind |-> "error", val |-> e]
NoneVal == [kind |-> "none", val |-> 0]
\* the test  count == 0
IsZero(v) == v.kind = "int" /\ v.val = 0

\* url, daily_hits, user_agents: the committed rows of the three tables
\* wlock, txn: the connection holding the write lock and its open transaction
\* today: the value of date(); pc, op, count, url_id: each connection's
\* position in its call and the call's local variables; ret: the call that
\* returned last and its value; ncalls: write calls started
\* urlCalls, dailyCalls, agentCalls: history, the completed add*Count calls
\* per url, per (url, date of the commit), per (url, agent argument)
VARIABLES url, daily_hits, user_agents, wlock, txn, today,
          pc, op, count, url_id, ret, ncalls,
          urlCalls, dailyCalls, agentCalls

tables == <<url, daily_hits, user_agents>>
ghosts == <<urlCalls, dailyCalls, agentCalls>>
locals == <<pc, op, count, url_id>>
vars == <<url, daily_hits, user_agents, wlock, txn, today,
          pc, op, count, url_id, ret, ncalls,
          urlCalls, dailyCalls, agentCalls>>

\* the committed contents of the three tables
Committed == [url |-> url, daily_hits |-> daily_hits, user_agents |-> user_agents]
EmptyDb == [url |-> <<>>, daily_hits |-> <<>>, user_agents |-> <<>>]
\* what connection c reads: its own open transaction, else the committed state
View(c) == IF wlock = c THEN txn ELSE Committed
\* c may write: no other connection holds the write lock
CanWrite(c) == wlock \in {NoConn, c}

\* least element of a non-empty set of row ids
MinOf(S) == CHOOSE i \in S : \A j \in S : i <= j

\* an agent that is stored as passed
NormAgent_keep(agent) == agent

\* agent = UNKNOWN_AGENT if agent is None
NormAgent(agent) == IF agent = None THEN UNKNOWN_AGENT ELSE agent

\* ----------------------------------------------------------- the queries
\* a lookup that takes the next free id when the url has no row
SelectUrlId_next(db, u) ==
    LET m == {i \in DOMAIN db.url : db.url[i].url = u}
    IN  IF m = {} THEN Len(db.url) + 1 ELSE MinOf(m)

\* SELECT id FROM url WHERE url=? ; fetchone()   (0 when fetchone() is None)
SelectUrlId(db, u) ==
    LET m == {i \in DOMAIN db.url : db.url[i].url = u}
    IN  IF m = {} THEN 0 ELSE MinOf(m)

\* a getCount that reads the matching row of greatest id
getCount_lastRow(db, u) ==
    LET m == {i \in DOMAIN db.url : db.url[i].url = u}
    IN  IF m = {} THEN IntVal(0)
        ELSE IntVal(db.url[CHOOSE i \in m : \A j \in m : j <= i].count)

\* getCount: SELECT count FROM url WHERE url=? ; 0 when no row
getCount(db, u) ==
    LET m == {i \in DOMAIN db.url : db.url[i].url = u}
    IN  IF m = {} THEN IntVal(0) ELSE IntVal(db.url[MinOf(m)].count)

\* a getDailyCount that takes an unrecognised date argument for no date
getDailyCount_lenient(db, u, date, now) ==
    LET m == {h \in DOMAIN db.daily_hits :
                /\ db.daily_hits[h].date = now
                /\ \E r \in DOMAIN db.url :
                     r = db.daily_hits[h].url_id /\ db.url[r].url = u}
    IN  IF m = {} THEN IntVal(0) ELSE IntVal(db.daily_hits[MinOf(m)].count)

\* getDailyCount: the date argument is only type-checked; the query filters
\* on date(), the store's current date (now), joined to the url rows of u
getDailyCount(db, u, date, now) ==
    IF date.kind \notin {"none", "datetime"}
    THEN ErrVal("ValueError")
    ELSE LET m == {h \in DOMAIN db.daily_hits :
                     /\ db.daily_hits[h].date = now
                     /\ \E r \in DOMAIN db.url :
                          r = db.daily_hits[h].url_id /\ db.url[r].url = u}
         IN  IF m = {} THEN IntVal(0) ELSE IntVal(db.daily_hits[MinOf(m)].count)

\* getAgentCount: SELECT user_agent ... WHERE user_agent=? AND url=? ;
\* the selected column is user_agent, so data[0] is the agent text
getAgentCount(db, u, agent) ==
    LET a == NormAgent(agent)
        m == {h \in DOMAIN db.user_agents :
                /\ db.user_agents[h].user_agent = a
                /\ \E r \in DOMAIN db.url :
                     r = db.user_agents[h].url_id /\ db.url[r].url = u}
    IN  IF m = {} THEN IntVal(0) ELSE TextVal(db.user_agents[MinOf(m)].user_agent)

\* -------------------------------------------------------- the statements
\* INSERT INTO url(url, count) VALUES(?, 0)
InsertUrl(db, u) ==
    [db EXCEPT !.url = Append(@, [url |-> u, count |-> 0])]

\* an UPDATE that subtracts 1 instead of adding 1
UpdateUrl_decrement(db, u) ==
    [db EXCEPT !.url = [i \in DOMAIN @ |->
        IF @[i].url = u THEN [@[i] EXCEPT !.count = @ - 1] ELSE @[i]]]

\* UPDATE url SET count = count + 1 WHERE url=?
UpdateUrl(db, u) ==
    [db EXCEPT !.url = [i \in DOMAIN @ |->
        IF @[i].url = u THEN [@[i] EXCEPT !.count = @ + 1] ELSE @[i]]]

\* INSERT INTO daily_hits(url_id, date, count) VALUES(?, date(), 0)
\* an INSERT into daily_hits for the first url row instead of the url's own
InsertDaily_firstUrl(db, id, now) ==
    [db EXCEPT !.daily_hits = Append(@, [url_id |-> 1, date |-> now, count |-> 0])]

\* INSERT INTO daily_hits(url_id, date, count) VALUES(?, date(), 0)
InsertDaily(db, id, now) ==
    [db EXCEPT !.daily_hits = Append(@, [url_id |-> id, date |-> now, count |-> 0])]

\* an UPDATE of daily_hits without the date filter
UpdateDaily_anyDate(db, id, now) ==
    [db EXCEPT !.daily_hits = [i \in DOMAIN @ |->
        IF @[i].url_id = id THEN [@[i] EXCEPT !.count = @ + 1] ELSE @[i]]]

\* UPDATE daily_hits SET count = count + 1 WHERE date=date() AND url_id=?
UpdateDaily(db, id, now) ==
    [db EXCEPT !.daily_hits = [i \in DOMAIN @ |->
        IF @[i].date = now /\ @[i].url_id = id
        THEN [@[i] EXCEPT !.count = @ + 1] ELSE @[i]]]

\* INSERT INTO user_agents(url_id, user_agent, count) VALUES(?, ?, 0)
InsertAgent(db, id, agent) ==
    [db EXCEPT !.user_agents =
        Append(@, [url_id |-> id, user_agent |-> agent, count |-> 0])]

\* an UPDATE of user_agents without the user_agent filter
UpdateAgent_anyAgent(db, id, agent) ==
    [db EXCEPT !.user_agents = [i \in DOMAIN @ |->
        IF @[i].url_id = id THEN [@[i] EXCEPT !.count = @ + 1] ELSE @[i]]]

\* UPDATE user_agents SET count = count + 1 WHERE url_id=? AND user_agent=?
UpdateAgent(db, id, agent) ==
    [db EXCEPT !.user_agents = [i \in DOMAIN @ |->
        IF @[i].url_id = id /\ @[i].user_agent = agent
        THEN [@[i] EXCEPT !.count = @ + 1] ELSE @[i]]]

\* ------------------------------------------------------------ getTopSites
\* row[0] == b'' : the url column is TEXT and comes back as str, and a str
\* never equals a bytes literal
EqualsEmptyBytes(u) == FALSE

\* row[0].split('/')[0] : the part before the first '/', the whole when none
RECURSIVE SplitFirst(_)
SplitFirst(u) ==
    IF u = <<>> \/ Head(u) = "/" THEN <<>>
    ELSE <<Head(u)>> \o SplitFirst(Tail(u))

\* a match of the whole domain instead of its start
ReMatch_whole(regex, domain) == domain = regex

\* re.match(regex, domain) is not None : the pattern matches at the start
ReMatch(regex, domain) ==
    /\ Len(regex) <= Len(domain)
    /\ SubSeq(domain, 1, Len(regex)) = regex

\* the loop over config.TOP_SITES_IGNORE_DOMAIN_RE_MATCH
OnIgnore(domain) ==
    \E k \in DOMAIN TOP_SITES_IGNORE_DOMAIN_RE_MATCH :
        ReMatch(TOP_SITES_IGNORE_DOMAIN_RE_MATCH[k], domain)

\* an assignment  site_counts[domain] = row[1]  instead of the +=
AddCount_assign(sc, domain, n) ==
    IF domain \in DOMAIN sc.vals
    THEN [sc EXCEPT !.vals[domain] = n]
    ELSE [keys |-> Append(sc.keys, domain), vals |-> sc.vals @@ (domain :> n)]

\* site_counts[domain] += row[1] on a defaultdict(int); keys keeps the
\* insertion order of the dict
AddCount(sc, domain, n) ==
    IF domain \in DOMAIN sc.vals
    THEN [sc EXCEPT !.vals[domain] = @ + n]
    ELSE [keys |-> Append(sc.keys, domain), vals |-> sc.vals @@ (domain :> n)]

\* one iteration of the loop over urls_and_counts
AddRow(sc, row) ==
    IF EqualsEmptyBytes(row.url) THEN sc
    ELSE LET domain == SplitFirst(row.url)
         IN  IF OnIgnore(domain) THEN sc ELSE AddCount(sc, domain, row.count)

\* the loop over the first n rows of  select url, count from url
RECURSIVE SiteCounts(_, _)
SiteCounts(rows, n) ==
    IF n = 0 THEN [keys |-> <<>>, vals |-> <<>>]
    ELSE AddRow(SiteCounts(rows, n - 1), rows[n])

\* a sort without reverse=True: ascending counts
RECURSIVE SortedSites_ascending(_, _, _)
SortedSites_ascending(keys, vals, n) ==
    IF n = 0 THEN <<>>
    ELSE LET prev == SortedSites_ascending(keys, vals, n - 1)
             k == keys[n]
             p == Cardinality({j \in DOMAIN prev : vals[prev[j]] <= vals[k]})
         IN  SubSeq(prev, 1, p) \o <<k>> \o SubSeq(prev, p + 1, Len(prev))

\* sorted(site_counts, key=..., reverse=True) : a stable sort, so keys of
\* equal count keep their dict order
RECURSIVE SortedSites(_, _, _)
SortedSites(keys, vals, n) ==
    IF n = 0 THEN <<>>
    ELSE LET prev == SortedSites(keys, vals, n - 1)
             k == keys[n]
             p == Cardinality({j \in DOMAIN prev : vals[prev[j]] >= vals[k]})
         IN  SubSeq(prev, 1, p) \o <<k>> \o SubSeq(prev, p + 1, Len(prev))

\* sorted_sites[:amount], with Python's meaning of a negative amount
Slice(s, amount) ==
    LET n == IF amount >= 0 THEN amount ELSE Len(s) + amount
        m == IF n < 0 THEN 0 ELSE IF n > Len(s) THEN Len(s) ELSE n
    IN  SubSeq(s, 1, m)

getTopSites(db, amount) ==
    LET sc == SiteCounts(db.url, Len(db.url))
        sorted_sites == SortedSites(sc.keys, sc.vals, Len(sc.keys))
    IN  [kind |-> "report",
         val |-> [domains |-> Slice(sorted_sites, amount), values |-> sc.vals]]

\* ---------------------------------------------------------------- state
NoDate == [kind |-> "none", day |-> 0]
NoOp == [name |-> "none", url |-> <<>>, agent |-> None, arg |-> None]
NoTxn == EmptyDb

Init ==
    /\ url = <<>> /\ daily_hits = <<>> /\ user_agents = <<>>
    /\ wlock = NoConn /\ txn = NoTxn
    /\ today = 1
    /\ pc = [c \in Conns |-> "idle"]
    /\ op = [c \in Conns |-> NoOp]
    /\ count = [c \in Conns |-> NoneVal]
    /\ url_id = [c \in Conns |-> 0]
    /\ ret = [name |-> "none", url |-> <<>>, agent |-> None,
              date |-> NoDate, amount |-> 0, val |-> NoneVal]
    /\ ncalls = 0
    /\ urlCalls = [u \in Urls |-> 0]
    /\ dailyCalls = [k \in Urls \X Days |-> 0]
    /\ agentCalls = [k \in Urls \X Agents |-> 0]

\* a store that earlier runs filled: "a" hit 5 times, "a/" hit 3 times
Preloaded == << [url |-> <<"a">>, count |-> 5], [url |-> <<"a", "/">>, count |-> 3] >>

InitTop ==
    /\ url \in {<<>>, Preloaded}
    /\ daily_hits = <<>> /\ user_agents = <<>>
    /\ wlock = NoConn /\ txn = NoTxn
    /\ today = 1
    /\ pc = [c \in Conns |-> "idle"]
    /\ op = [c \in Conns |-> NoOp]
    /\ count = [c \in Conns |-> NoneVal]
    /\ url_id = [c \in Conns |-> 0]
    /\ ret = [name |-> "none", url |-> <<>>, agent |-> None,
              date |-> NoDate, amount |-> 0, val |-> NoneVal]
    /\ ncalls = 0
    /\ urlCalls = [u \in Urls |->
                     IF \E i \in DOMAIN url : url[i].url = u
                     THEN url[CHOOSE i \in DOMAIN url : url[i].url = u].count
                     ELSE 0]
    /\ dailyCalls = [k \in Urls \X Days |-> 0]
    /\ agentCalls = [k \in Urls \X Agents |-> 0]

\* the record of a call that has returned (val is the value or the exception)
Returned(n, u, a, d, k, v) ==
    [name |-> n, url |-> u, agent |-> a, date |-> d, amount |-> k, val |-> v]

\* a write call may start: the model bounds the number of write calls
MayStart(c) == pc[c] = "idle" /\ ncalls < MaxCalls

\* connection.commit(): publish the transaction, release the write lock
Publish ==
    /\ url' = txn.url
    /\ daily_hits' = txn.daily_hits
    /\ user_agents' = txn.user_agents
    /\ wlock' = NoConn
    /\ txn' = NoTxn

\* the call returns: its local variables are gone
Return(c) ==
    /\ pc' = [pc EXCEPT ![c] = "idle"]
    /\ op' = [op EXCEPT ![c] = NoOp]
    /\ count' = [count EXCEPT ![c] = NoneVal]
    /\ url_id' = [url_id EXCEPT ![c] = 0]

\* ----------------------------------------------------------- addUrlCount
\* count = self.getCount(connection, url)
addUrlCount_getCount(c, u) ==
    /\ MayStart(c)
    /\ ncalls' = ncalls + 1
    /\ op' = [op EXCEPT ![c] = [name |-> "addUrlCount", url |-> u, agent |-> None, arg |-> None]]
    /\ count' = [count EXCEPT ![c] = getCount(View(c), u)]
    /\ pc' = [pc EXCEPT ![c] = IF IsZero(count'[c]) THEN "url_insert" ELSE "url_update"]
    /\ UNCHANGED <<tables, wlock, txn, today, url_id, ret, ghosts>>

\* if count == 0: INSERT INTO url ... (the first write: opens the transaction)
addUrlCount_insert(c) ==
    /\ pc[c] = "url_insert"
    /\ CanWrite(c)
    /\ txn' = InsertUrl(View(c), op[c].url)
    /\ wlock' = c
    /\ pc' = [pc EXCEPT ![c] = "url_update"]
    /\ UNCHANGED <<tables, today, op, count, url_id, ret, ncalls, ghosts>>

\* UPDATE url SET count = count + 1 WHERE url=?
addUrlCount_update(c) ==
    /\ pc[c] = "url_update"
    /\ CanWrite(c)
    /\ txn' = UpdateUrl(View(c), op[c].url)
    /\ wlock' = c
    /\ pc' = [pc EXCEPT ![c] = "url_commit"]
    /\ UNCHANGED <<tables, today, op, count, url_id, ret, ncalls, ghosts>>

\* connection.commit(), and the call returns
addUrlCount_commit(c) ==
    /\ pc[c] = "url_commit"
    /\ Publish
    /\ Return(c)
    /\ ret' = Returned("addUrlCount", op[c].url, None, NoDate, 0, NoneVal)
    /\ urlCalls' = [urlCalls EXCEPT ![op[c].url] = @ + 1]
    /\ UNCHANGED <<today, ncalls, dailyCalls, agentCalls>>

\* --------------------------------------------------------- addDailyCount
\* url_id = cursor.fetchone()[0] : a TypeError when the url has no row
addDailyCount_selectId(c, u) ==
    /\ MayStart(c)
    /\ LET id == SelectUrlId(View(c), u)
       IN  IF id = 0
           THEN /\ ret' = Returned("addDailyCount", u, None, NoDate, 0,
                                   ErrVal("TypeError"))
                /\ UNCHANGED <<locals, ncalls>>
           ELSE /\ ncalls' = ncalls + 1
                /\ op' = [op EXCEPT ![c] =
                            [name |-> "addDailyCount", url |-> u, agent |-> None,
                             arg |-> None]]
                /\ url_id' = [url_id EXCEPT ![c] = id]
                /\ pc' = [pc EXCEPT ![c] = "daily_get"]
                /\ UNCHANGED <<count, ret>>
    /\ UNCHANGED <<tables, wlock, txn, today, ghosts>>

\* count = self.getDailyCount(connection, url)
addDailyCount_getDailyCount(c) ==
    /\ pc[c] = "daily_get"
    /\ count' = [count EXCEPT ![c] = getDailyCount(View(c), op[c].url, NoDate, today)]
    /\ pc' = [pc EXCEPT ![c] = IF IsZero(count'[c]) THEN "daily_insert" ELSE "daily_update"]
    /\ UNCHANGED <<tables, wlock, txn, today, op, url_id, ret, ncalls, ghosts>>

\* if count == 0: INSERT INTO daily_hits ... date() ...
addDailyCount_insert(c) ==
    /\ pc[c] = "daily_insert"
    /\ CanWrite(c)
    /\ txn' = InsertDaily(View(c), url_id[c], today)
    /\ wlock' = c
    /\ pc' = [pc EXCEPT ![c] = "daily_update"]
    /\ UNCHANGED <<tables, today, op, count, url_id, ret, ncalls, ghosts>>

\* UPDATE daily_hits SET count = count + 1 WHERE date=date() AND url_id=?
addDailyCount_update(c) ==
    /\ pc[c] = "daily_update"
    /\ CanWrite(c)
    /\ txn' = UpdateDaily(View(c), url_id[c], today)
    /\ wlock' = c
    /\ pc' = [pc EXCEPT ![c] = "daily_commit"]
    /\ UNCHANGED <<tables, today, op, count, url_id, ret, ncalls, ghosts>>

\* connection.commit(), and the call returns
addDailyCount_commit(c) ==
    /\ pc[c] = "daily_commit"
    /\ Publish
    /\ Return(c)
    /\ ret' = Returned("addDailyCount", op[c].url, None, NoDate, 0, NoneVal)
    /\ dailyCalls' = [dailyCalls EXCEPT ![<<op[c].url, today>>] = @ + 1]
    /\ UNCHANGED <<today, ncalls, urlCalls, agentCalls>>

\* --------------------------------------------------------- addAgentCount
\* agent normalised; url_id = cursor.fetchone()[0] : a TypeError when no row
addAgentCount_selectId(c, u, agent) ==
    /\ MayStart(c)
    /\ LET id == SelectUrlId(View(c), u)
       IN  IF id = 0
           THEN /\ ret' = Returned("addAgentCount", u, agent, NoDate, 0,
                                   ErrVal("TypeError"))
                /\ UNCHANGED <<locals, ncalls>>
           ELSE /\ ncalls' = ncalls + 1
                /\ op' = [op EXCEPT ![c] =
                            [name |-> "addAgentCount", url |-> u,
                             agent |-> NormAgent(agent), arg |-> agent]]
                /\ url_id' = [url_id EXCEPT ![c] = id]
                /\ pc' = [pc EXCEPT ![c] = "agent_get"]
                /\ UNCHANGED <<count, ret>>
    /\ UNCHANGED <<tables, wlock, txn, today, ghosts>>

\* count = self.getAgentCount(connection, url, agent)
addAgentCount_getAgentCount(c) ==
    /\ pc[c] = "agent_get"
    /\ count' = [count EXCEPT ![c] = getAgentCount(View(c), op[c].url, op[c].agent)]
    /\ pc' = [pc EXCEPT ![c] = IF IsZero(count'[c]) THEN "agent_insert" ELSE "agent_update"]
    /\ UNCHANGED <<tables, wlock, txn, today, op, url_id, ret, ncalls, ghosts>>

\* if count == 0: INSERT INTO user_agents ...
addAgentCount_insert(c) ==
    /\ pc[c] = "agent_insert"
    /\ CanWrite(c)
    /\ txn' = InsertAgent(View(c), url_id[c], op[c].agent)
    /\ wlock' = c
    /\ pc' = [pc EXCEPT ![c] = "agent_update"]
    /\ UNCHANGED <<tables, today, op, count, url_id, ret, ncalls, ghosts>>

\* UPDATE user_agents SET count = count + 1 WHERE url_id=? AND user_agent=?
addAgentCount_update(c) ==
    /\ pc[c] = "agent_update"
    /\ CanWrite(c)
    /\ txn' = UpdateAgent(View(c), url_id[c], op[c].agent)
    /\ wlock' = c
    /\ pc' = [pc EXCEPT ![c] = "agent_commit"]
    /\ UNCHANGED <<tables, today, op, count, url_id, ret, ncalls, ghosts>>

\* connection.commit(), and the call returns
addAgentCount_commit(c) ==
    /\ pc[c] = "agent_commit"
    /\ Publish
    /\ Return(c)
    /\ ret' = Returned("addAgentCount", op[c].url, op[c].arg, NoDate, 0, NoneVal)
    /\ agentCalls' = [agentCalls EXCEPT ![<<op[c].url, op[c].arg>>] = @ + 1]
    /\ UNCHANGED <<today, ncalls, urlCalls, dailyCalls>>

\* ------------------------------------------------------- the read calls
Reads(c, r) ==
    /\ pc[c] = "idle"
    /\ ret' = r
    /\ UNCHANGED <<tables, wlock, txn, today, locals, ncalls, ghosts>>

call_getCount(c, u) ==
    Reads(c, Returned("getCount", u, None, NoDate, 0, getCount(View(c), u)))

call_getDailyCount(c, u, date) ==
    Reads(c, Returned("getDailyCount", u, None, date, 0,
                      getDailyCount(View(c), u, date, today)))

call_getAgentCount(c, u, agent) ==
    Reads(c, Returned("getAgentCount", u, agent, NoDate, 0,
                      getAgentCount(View(c), u, agent)))

call_getTopSites(c, amount) ==
    Reads(c, Returned("getTopSites", <<>>, None, NoDate, amount,
                      getTopSites(View(c), amount)))

\* the calendar date of the store, date(), moves on
Tick ==
    /\ today < MaxDay
    /\ today' = today + 1
    /\ UNCHANGED <<tables, wlock, txn, locals, ret, ncalls, ghosts>>

\* the steps of the three write calls on connection c, urls from U
Writes(c, U) ==
    \/ \E u \in U : addUrlCount_getCount(c, u)
    \/ addUrlCount_insert(c)
    \/ addUrlCount_update(c)
    \/ addUrlCount_commit(c)
    \/ \E u \in U : addDailyCount_selectId(c, u)
    \/ addDailyCount_getDailyCount(c)
    \/ addDailyCount_insert(c)
    \/ addDailyCount_update(c)
    \/ addDailyCount_commit(c)
    \/ \E u \in U, a \in Agents : addAgentCount_selectId(c, u, a)
    \/ addAgentCount_getAgentCount(c)
    \/ addAgentCount_insert(c)
    \/ addAgentCount_update(c)
    \/ addAgentCount_commit(c)

\* the three counter reads on connection c, urls from U
Counts(c, U) ==
    \/ \E u \in U : call_getCount(c, u)
    \/ \E u \in U, d \in DateArgs : call_getDailyCount(c, u, d)
    \/ \E u \in U, a \in Agents : call_getAgentCount(c, u, a)

\* connections run concurrently, step by step, on two urls of one domain;
\* the date moves at any time
ConcUrls == { <<"a">>, <<"a", "/">> }
Next ==
    \/ \E c \in Conns : Writes(c, ConcUrls)
    \/ \E c \in Conns : Counts(c, ConcUrls)
    \/ \E c \in Conns, k \in Amounts : call_getTopSites(c, k)
    \/ Tick

Spec == Init /\ [][Next]_vars

\* calls run one after another (on any connection), the date moving between
\* calls
Others(c) == \A d \in Conns \ {c} : pc[d] = "idle"
AllIdle == \A c \in Conns : pc[c] = "idle"
SeqUrls == { <<"a">>, <<"b">> }
NextSeq ==
    \/ \E c \in Conns : Others(c) /\ Writes(c, SeqUrls)
    \/ \E c \in Conns : Others(c) /\ Counts(c, SeqUrls)
    \/ \E c \in Conns, k \in Amounts : Others(c) /\ call_getTopSites(c, k)
    \/ AllIdle /\ Tick

SpecSeq == Init /\ [][NextSeq]_vars

\* the report: addUrlCount calls, one after another, on all the urls, and
\* getTopSites
NextTop ==
    \/ \E c \in Conns : Others(c) /\
          \/ \E u \in Urls : addUrlCount_getCount(c, u)
          \/ addUrlCount_insert(c)
          \/ addUrlCount_update(c)
          \/ addUrlCount_commit(c)
    \/ \E c \in Conns, k \in Amounts : Others(c) /\ call_getTopSites(c, k)

SpecTop == InitTop /\ [][NextTop]_vars

\* hit recording: the caller runs addUrlCount(u), addDailyCount(u),
\* addAgentCount(u, a) as one sequence, one sequence at a time; the date
\* moves between sequences.  The history tells where a sequence stands.
RECURSIVE SumOf(_, _)
SumOf(f, S) ==
    IF S = {} THEN 0
    ELSE LET x == CHOOSE y \in S : TRUE IN f[x] + SumOf(f, S \ {x})
DailyDone(u) == SumOf(dailyCalls, {u} \X Days)
AgentDone(u) == SumOf(agentCalls, {u} \X Agents)
HitsComplete ==
    \A u \in Urls : urlCalls[u] = DailyDone(u) /\ DailyDone(u) = AgentDone(u)

\* a further sequence may start: the model bounds the number of sequences
\* and counts the write calls of each sequence from 0
NewHit ==
    /\ AllIdle /\ HitsComplete
    /\ ncalls > 0
    /\ SumOf(urlCalls, Urls) < MaxHits
    /\ ncalls' = 0
    /\ UNCHANGED <<tables, wlock, txn, today, locals, ret, ghosts>>

NextHit ==
    \/ \E c \in Conns, u \in SeqUrls :
          Others(c) /\ HitsComplete /\ addUrlCount_getCount(c, u)
    \/ \E c \in Conns : Others(c) /\ addUrlCount_insert(c)
    \/ \E c \in Conns : Others(c) /\ addUrlCount_update(c)
    \/ \E c \in Conns : Others(c) /\ addUrlCount_commit(c)
    \/ \E c \in Conns, u \in SeqUrls :
          Others(c) /\ urlCalls[u] = DailyDone(u) + 1 /\ addDailyCount_selectId(c, u)
    \/ \E c \in Conns : Others(c) /\ addDailyCount_getDailyCount(c)
    \/ \E c \in Conns : Others(c) /\ addDailyCount_insert(c)
    \/ \E c \in Conns : Others(c) /\ addDailyCount_update(c)
    \/ \E c \in Conns : Others(c) /\ addDailyCount_commit(c)
    \/ \E c \in Conns, u \in SeqUrls, a \in Agents :
          Others(c) /\ DailyDone(u) = AgentDone(u) + 1
             /\ addAgentCount_selectId(c, u, a)
    \/ \E c \in Conns : Others(c) /\ addAgentCount_getAgentCount(c)
    \/ \E c \in Conns : Others(c) /\ addAgentCount_insert(c)
    \/ \E c \in Conns : Others(c) /\ addAgentCount_update(c)
    \/ \E c \in Conns : Others(c) /\ addAgentCount_commit(c)
    \/ AllIdle /\ HitsComplete /\ Tick
    \/ NewHit

SpecHit == Init /\ [][NextHit]_vars

\* ================================================================ claims
\* the committed rows of a url, of a (url, date) pair, of a (url, agent) pair
UrlRows(u) == {i \in DOMAIN url : url[i].url = u}
DailyRows(u, d) ==
    {h \in DOMAIN daily_hits :
        daily_hits[h].date = d /\ daily_hits[h].url_id \in UrlRows(u)}
AgentRows(u, a) ==
    {h \in DOMAIN user_agents :
        user_agents[h].user_agent = a /\ user_agents[h].url_id \in UrlRows(u)}

\* C1: after N completed addUrlCount(u) calls, run one after another or
\* interleaved step by step on different connections, a getCount(u) call
\* returns exactly N
C1_NoLostUpdates ==
    [][\A c \in Conns, u \in Urls :
          call_getCount(c, u) => ret'.val = IntVal(urlCalls[u])]_vars

\* two interleaved addUrlCount calls for one url both inserted a row, both
\* completed, and getCount returned 2
C1_Witness ==
    /\ ret.name = "getCount"
    /\ ret.val = IntVal(2)
    /\ urlCalls[ret.url] = 2
    /\ Cardinality(UrlRows(ret.url)) = 2

\* C2: the url table holds at most one row per distinct url string, also
\* after concurrent addUrlCount calls for the same url
C2_OneRowPerUrl ==
    \A u \in Urls : Cardinality(UrlRows(u)) <= 1

\* the count recorded in the table for u on date d, 0 without a row
RecordedDaily(u, d) ==
    IF DailyRows(u, d) = {} THEN 0 ELSE daily_hits[MinOf(DailyRows(u, d))].count
\* the date a valid date argument stands for
ResolvedDay(date) == IF date.kind = "datetime" THEN date.day ELSE today
\* the agent text an agent argument stands for
Sentinel(a) == IF a = None THEN UNKNOWN_AGENT ELSE a
\* the completed addAgentCount(u, .) calls whose agent stands for the text a
AgentHits(u, a) ==
    IF a = UNKNOWN_AGENT
    THEN agentCalls[<<u, None>>] + agentCalls[<<u, UNKNOWN_AGENT>>]
    ELSE agentCalls[<<u, a>>]

\* C3: getAgentCount(u, a) returns the integer count of the pair
\* (u, normalized a): k after k >= 1 completed addAgentCount(u, a) calls,
\* 0 when the pair was never recorded
C3_AgentCountReturned ==
    [][\A c \in Conns, u \in Urls, a \in Agents :
          call_getAgentCount(c, u, a) => ret'.val = IntVal(AgentHits(u, Sentinel(a)))]_vars

\* C4: getDailyCount(u, d) with a date d returns the count recorded for u on
\* the date d (0 without a row), and the count of today only without a date
C4_DailyCountOfDate ==
    [][\A c \in Conns, u \in Urls, d \in DateArgs :
          call_getDailyCount(c, u, d) /\ d.kind # "other"
             => ret'.val = IntVal(RecordedDaily(u, ResolvedDay(d)))]_vars

\* C5: with calls run one after another, each within one calendar date, the
\* addDailyCount(u) calls of one date leave exactly one row for (u, date)
\* whose count is the number of those calls (2 after two calls, 1 and 1 after
\* one call on each of two dates); a later date's call leaves the earlier
\* date's row as it was
C5_OneRowPerDate ==
    \A u \in Urls, d \in Days :
        IF dailyCalls[<<u, d>>] = 0
        THEN DailyRows(u, d) = {}
        ELSE /\ Cardinality(DailyRows(u, d)) = 1
             /\ \A h \in DailyRows(u, d) : daily_hits[h].count = dailyCalls[<<u, d>>]

\* one call on each of two dates: two rows for the url, each of count 1
C5_Witness ==
    \E u \in Urls :
        /\ today = 2
        /\ dailyCalls[<<u, 1>>] = 1 /\ dailyCalls[<<u, 2>>] = 1
        /\ \E h1 \in DailyRows(u, 1), h2 \in DailyRows(u, 2) :
              h1 # h2 /\ daily_hits[h1].count = 1 /\ daily_hits[h2].count = 1

\* C6: addAgentCount(u, None) and addAgentCount(u, sentinel) are
\* interchangeable: after any sequence of calls of the two forms there is
\* exactly one row for (u, sentinel), its count is the number of calls of
\* either form, and no row holds a missing agent
C6_NullIsSentinel ==
    \A u \in Urls :
        /\ \A h \in DOMAIN user_agents : user_agents[h].user_agent # None
        /\ IF agentCalls[<<u, None>>] + agentCalls[<<u, UNKNOWN_AGENT>>] = 0
           THEN AgentRows(u, UNKNOWN_AGENT) = {}
           ELSE /\ Cardinality(AgentRows(u, UNKNOWN_AGENT)) = 1
                /\ \A h \in AgentRows(u, UNKNOWN_AGENT) :
                      user_agents[h].count =
                         agentCalls[<<u, None>>] + agentCalls[<<u, UNKNOWN_AGENT>>]

\* one call of each form for a url: one sentinel row of count 2
C6_Witness ==
    \E u \in Urls :
        /\ agentCalls[<<u, None>>] = 1 /\ agentCalls[<<u, UNKNOWN_AGENT>>] = 1
        /\ \E h \in AgentRows(u, UNKNOWN_AGENT) : user_agents[h].count = 2

\* C7: getCount returns 0 for a url without a row, and getDailyCount and
\* getAgentCount return 0, without an error, whenever no row matches the
\* (url, date) pair or the (url, agent) pair they are asked about
C7_ZeroWhenNoRow ==
    [][\A c \in Conns, u \in Urls :
          /\ call_getCount(c, u) /\ UrlRows(u) = {} => ret'.val = IntVal(0)
          /\ \A d \in DateArgs :
                call_getDailyCount(c, u, d) /\ d.kind # "other"
                   /\ DailyRows(u, ResolvedDay(d)) = {} => ret'.val = IntVal(0)
          /\ \A a \in Agents :
                call_getAgentCount(c, u, a) /\ AgentRows(u, Sentinel(a)) = {}
                   => ret'.val = IntVal(0)]_vars

\* C8: getDailyCount with a date argument that is present but not a
\* date/time value fails with the error, returns no count and does not fall
\* back to today, and leaves every table unchanged
C8_InvalidDate ==
    [][\A c \in Conns, u \in Urls, d \in DateArgs :
          call_getDailyCount(c, u, d) /\ d.kind = "other"
             => /\ ret'.val = ErrVal("ValueError")
                /\ UNCHANGED <<tables, wlock, txn>>]_vars

\* the call failed although the url has a count for today to fall back to
C8_Witness ==
    /\ ret.name = "getDailyCount"
    /\ ret.date.kind = "other"
    /\ ret.val.kind = "error"
    /\ DailyRows(ret.url, today) # {}

\* the part of a url before its first '/', the whole url when it has none
FirstSlash(u) ==
    IF \E i \in DOMAIN u : u[i] = "/"
    THEN MinOf({i \in DOMAIN u : u[i] = "/"})
    ELSE Len(u) + 1
DomainOf(u) == SubSeq(u, 1, FirstSlash(u) - 1)
\* the domain starts with one of the configured ignore patterns
Ignored(d) ==
    \E k \in DOMAIN TOP_SITES_IGNORE_DOMAIN_RE_MATCH :
        LET p == TOP_SITES_IGNORE_DOMAIN_RE_MATCH[k]
        IN  Len(p) <= Len(d) /\ \A i \in DOMAIN p : d[i] = p[i]
\* the sum of the counts of a set of url rows
RECURSIVE SumCounts(_)
SumCounts(S) ==
    IF S = {} THEN 0
    ELSE LET i == CHOOSE j \in S : TRUE IN url[i].count + SumCounts(S \ {i})
\* the url rows of a domain, and the domains of the store that are not ignored
RowsOfDomain(d) == {i \in DOMAIN url : DomainOf(url[i].url) = d}
KeptDomains == {DomainOf(url[i].url) : i \in DOMAIN url} \ {d \in {DomainOf(url[i].url) : i \in DOMAIN url} : Ignored(d)}

\* C9: the values map of getTopSites holds, for every domain that is not
\* ignored, the sum of the counts of all url rows of that domain, whatever
\* the amount; an empty store gives empty values and empty domains
C9_ValuesAreSums ==
    [][\A c \in Conns, k \in Amounts :
          call_getTopSites(c, k) =>
             /\ DOMAIN ret'.val.val.values = KeptDomains
             /\ \A d \in KeptDomains :
                   ret'.val.val.values[d] = SumCounts(RowsOfDomain(d))
             /\ url = <<>> => /\ ret'.val.val.values = <<>>
                              /\ ret'.val.val.domains = <<>>]_vars

\* rows "a" of count 5 and "a/" of count 3: values["a"] = 8, with amount 0
C9_Witness ==
    /\ ret.name = "getTopSites"
    /\ ret.amount = 0
    /\ Len(url) = 2
    /\ url[1] = [url |-> <<"a">>, count |-> 5]
    /\ url[2] = [url |-> <<"a", "/">>, count |-> 3]
    /\ ret.val.val.values = (<<"a">> :> 8)

\* C10: a domain that matches an ignore pattern from its start is neither
\* an entry of domains nor a key of values, for any store and any amount
C10_IgnoredExcluded ==
    [][\A c \in Conns, k \in Amounts :
          call_getTopSites(c, k) =>
             /\ \A d \in DOMAIN ret'.val.val.values : ~Ignored(d)
             /\ \A i \in DOMAIN ret'.val.val.domains :
                   ~Ignored(ret'.val.val.domains[i])]_vars

\* the ignored domain has the highest count of the store and the report,
\* asked for at least one domain, lists another domain
C10_Witness ==
    /\ ret.name = "getTopSites"
    /\ ret.amount >= 1
    /\ ret.val.val.domains # <<>>
    /\ \E i \in DOMAIN url :
          /\ Ignored(DomainOf(url[i].url))
          /\ \A j \in DOMAIN url \ {i} : url[j].count < url[i].count

\* the accumulated total of a domain
TotalOf(d) == SumCounts(RowsOfDomain(d))
\* the smaller of two numbers
Min2(a, b) == IF a <= b THEN a ELSE b

C12_EmptyUrlSkipped ==
    [][\A c \in Conns, k \in Amounts :
          call_getTopSites(c, k) /\ (\A i \in RowsOfDomain(<<>>) : url[i].url = <<>>)
             => /\ <<>> \notin DOMAIN ret'.val.val.values
                /\ \A i \in DOMAIN ret'.val.val.domains :
                      ret'.val.val.domains[i] # <<>>]_vars

\* C13: there is at most one daily_hits row per (url_id, date) and at most
\* one user_agents row per (url_id, user_agent), also after concurrent
\* addDailyCount and addAgentCount calls for one url
C13_OneRowPerKey ==
    /\ \A h1, h2 \in DOMAIN daily_hits :
          daily_hits[h1].url_id = daily_hits[h2].url_id
             /\ daily_hits[h1].date = daily_hits[h2].date => h1 = h2
    /\ \A h1, h2 \in DOMAIN user_agents :
          user_agents[h1].url_id = user_agents[h2].url_id
             /\ user_agents[h1].user_agent = user_agents[h2].user_agent => h1 = h2

\* the rows of a table that a step has added have a count of at least 1
NewRowsCounted(old, new) ==
    \A i \in DOMAIN new : i > Len(old) => new[i].count >= 1

\* C14: every add*Count call commits its row creation together with its +1
\* update, or commits nothing: no commit adds a row that has not been
\* incremented; addDailyCount(u) and addAgentCount(u, a) for a url without a
\* row fail with an error and leave the three tables unchanged
C14_AllOrNothing ==
    [][/\ NewRowsCounted(url, url')
       /\ NewRowsCounted(daily_hits, daily_hits')
       /\ NewRowsCounted(user_agents, user_agents')
       /\ \A c \in Conns, u \in Urls :
             UrlRows(u) = {} =>
                /\ addDailyCount_selectId(c, u)
                      => ret'.val.kind = "error" /\ UNCHANGED <<tables, wlock, txn>>
                /\ \A a \in Agents :
                      addAgentCount_selectId(c, u, a)
                         => ret'.val.kind = "error" /\ UNCHANGED <<tables, wlock, txn>>]_vars

\* C15: in every committed state every row of the three tables has a count
\* of at least 1, under any interleaving of add*Count calls
C15_NoZeroCountRow ==
    /\ \A i \in DOMAIN url : url[i].count >= 1
    /\ \A h \in DOMAIN daily_hits : daily_hits[h].count >= 1
    /\ \A h \in DOMAIN user_agents : user_agents[h].count >= 1

\* a table keeps its rows, their keys, and counts that do not decrease
RowsKept(old, new) ==
    /\ Len(new) >= Len(old)
    /\ \A i \in DOMAIN old :
          /\ new[i].count >= old[i].count
          /\ [new[i] EXCEPT !.count = 0] = [old[i] EXCEPT !.count = 0]

C17_ParentExists ==
    /\ \A h \in DOMAIN daily_hits : daily_hits[h].url_id \in DOMAIN url
    /\ \A h \in DOMAIN user_agents : user_agents[h].url_id \in DOMAIN url
    /\ wlock # NoConn =>
          /\ \A h \in DOMAIN txn.daily_hits : txn.daily_hits[h].url_id \in DOMAIN txn.url
          /\ \A h \in DOMAIN txn.user_agents : txn.user_agents[h].url_id \in DOMAIN txn.url

\* an addDailyCount or addAgentCount call for a url without a row has failed
\* while child rows of another url exist
C17_Witness ==
    /\ ret.name \in {"addDailyCount", "addAgentCount"}
    /\ ret.val.kind = "error"
    /\ UrlRows(ret.url) = {}
    /\ daily_hits # <<>> \/ user_agents # <<>>

\* the completed addUrlCount calls whose url has the domain d
RECURSIVE SumCalls(_)
SumCalls(U) ==
    IF U = {} THEN 0
    ELSE LET u == CHOOSE v \in U : TRUE IN urlCalls[u] + SumCalls(U \ {u})
HitsOfDomain(d) == SumCalls({u \in Urls : DomainOf(u) = d})

\* C18: after any addUrlCount calls, in any interleaving across
\* connections, values[d] of getTopSites is the number of completed
\* addUrlCount calls whose url has the domain d
C18_ValuesAreHits ==
    [][\A c \in Conns, k \in Amounts :
          call_getTopSites(c, k) =>
             \A d \in DOMAIN ret'.val.val.values :
                ret'.val.val.values[d] = HitsOfDomain(d)]_vars

\* the sum of the counts of a set of rows of a table
RECURSIVE SumRows(_, _)
SumRows(tbl, S) ==
    IF S = {} THEN 0
    ELSE LET i == CHOOSE j \in S : TRUE IN tbl[i].count + SumRows(tbl, S \ {i})
\* the url count of u, and the sums of its daily and of its agent counts
UrlTotal(u) == SumRows(url, UrlRows(u))
DailyTotal(u) ==
    SumRows(daily_hits, {h \in DOMAIN daily_hits : daily_hits[h].url_id \in UrlRows(u)})
AgentTotal(u) ==
    SumRows(user_agents, {h \in DOMAIN user_agents : user_agents[h].url_id \in UrlRows(u)})

\* C19: after complete hit-recording sequences addUrlCount(u),
\* addDailyCount(u), addAgentCount(u, a), run one sequence at a time with the
\* date moving between sequences, the url count of every url equals the sum
\* of its daily counts over all dates and the sum of its agent counts over
\* all agents
C19_TotalsAgree ==
    AllIdle /\ HitsComplete =>
       \A u \in Urls : UrlTotal(u) = DailyTotal(u) /\ UrlTotal(u) = AgentTotal(u)

\* two complete sequences for one url, on two dates and with two agents, one
\* of them missing
C19_Witness ==
    /\ AllIdle /\ HitsComplete
    /\ \E u \in Urls :
          /\ UrlTotal(u) = 2
          /\ DailyRows(u, 1) # {} /\ DailyRows(u, 2) # {}
          /\ AgentRows(u, UNKNOWN_AGENT) # {} /\ AgentRows(u, "ua") # {}
          /\ agentCalls[<<u, None>>] = 1

\* every row of old outside Own is still in new, unchanged, and every row
\* that new has and old has not satisfies IsOwn
FrameOf(old, new, Own, IsOwn(_)) ==
    /\ Len(new) >= Len(old)
    /\ \A i \in DOMAIN old : i \notin Own => new[i] = old[i]
    /\ \A i \in DOMAIN new : i > Len(old) => IsOwn(new[i])

\* connection c takes the step of its call that stands at label p
Leaves(c, p) == pc[c] = p /\ pc'[c] # p

\* C20: each operation changes only the rows of its own key, under every
\* interleaving: addUrlCount(u) leaves the url rows of other urls and the
\* daily_hits and user_agents tables unchanged; addDailyCount(u) leaves the
\* url and user_agents tables and the daily_hits rows of another url or
\* another date unchanged (its INSERT and its UPDATE touch rows of the url
\* on the date of that statement only, and what it commits are rows of one
\* date); addAgentCount(u, a) leaves the url and daily_hits tables and the
\* user_agents rows of another url or another agent unchanged; the four
\* reads, and every step that is not the commit of a write, leave all three
\* tables unchanged
C20_OwnKeyOnly ==
    [][/\ \A c \in Conns :
            /\ Leaves(c, "url_commit") =>
                  /\ UNCHANGED <<daily_hits, user_agents>>
                  /\ LET u == op[c].url
                         IsOwn(r) == r.url = u
                     IN  FrameOf(url, url', UrlRows(u), IsOwn)
            /\ (Leaves(c, "daily_insert") \/ Leaves(c, "daily_update")) =>
                  LET old == View(c).daily_hits
                      IsOwn(r) == r.url_id = url_id[c] /\ r.date = today
                  IN  /\ FrameOf(old, txn'.daily_hits,
                                 {i \in DOMAIN old : IsOwn(old[i])}, IsOwn)
                      /\ txn'.url = View(c).url
                      /\ txn'.user_agents = View(c).user_agents
            /\ Leaves(c, "daily_commit") =>
                  /\ UNCHANGED <<url, user_agents>>
                  /\ \E d \in Days :
                        /\ d <= today
                        /\ LET u == op[c].url
                               IsOwn(r) == r.url_id \in UrlRows(u) /\ r.date = d
                           IN  FrameOf(daily_hits, daily_hits', DailyRows(u, d), IsOwn)
            /\ Leaves(c, "agent_commit") =>
                  /\ UNCHANGED <<url, daily_hits>>
                  /\ LET u == op[c].url
                         a == NormAgent(op[c].agent)
                         IsOwn(r) == r.url_id \in UrlRows(u) /\ r.user_agent = a
                     IN  FrameOf(user_agents, user_agents', AgentRows(u, a), IsOwn)
       /\ (\A c \in Conns : ~ (\/ Leaves(c, "url_commit")
                               \/ Leaves(c, "daily_commit")
                               \/ Leaves(c, "agent_commit")))
             => UNCHANGED tables
       /\ ret'.name \in {"getCount", "getDailyCount", "getAgentCount", "getTopSites"}
             => UNCHANGED tables]_vars

\* a second addDailyCount of a url has returned on a later date: the row of
\* the earlier date is there with its count of 1, next to the url's total
C20_Witness ==
    /\ ret.name = "addDailyCount" /\ ret.val = NoneVal
    /\ \E u \in Urls :
          /\ ret.url = u
          /\ \E h \in DailyRows(u, today) : daily_hits[h].count = 1
          /\ \E d \in Days : d # today /\
                \E h \in DailyRows(u, d) : daily_hits[h].count = 1
          /\ \E i \in UrlRows(u) : url[i].count = 1

====
